---- MODULE Spec2Model ----
(***************************************************************************)
(* Model of crater's task graph scheduler (src/run_graph.rs): the graph    *)
(* built by build_graph, the depth-first walk of next_task, the failure    *)
(* cascade of mark_as_failed, and the worker loop of run_ex with its graph *)
(* mutex and its park/unpark protocol.                                     *)
(***************************************************************************)
EXTENDS Integers, Sequences, FiniteSets, TLC

\* ------------------------------------------------------------- bounds ----

\* threads_count of run_ex (workers are 1..NumWorkers).
NumWorkers == 2

\* ex.crates, in the experiment's order.
Crates == <<"A", "B">>

\* ex.toolchains: the ordered pair [start, end].
Toolchains == <<1, 2>>

Workers == 1..NumWorkers

\* The crates config.is_broken may hold for: the first crate.
BrokenCandidates == {Crates[1]}
CrateSet == {Crates[i] : i \in 1..Len(Crates)}
TcSet == {Toolchains[i] : i \in 1..Len(Toolchains)}
Keys == CrateSet \X TcSet

NoResult == "none"
NoWorker == 0

\* --------------------------------------------------------------- nodes ---

\* enum Node: Root, CrateCompleted, Task { task, running }.  A node's record
\* is its identity (its NodeIndex); `running` is kept in the graph's running
\* set.  The four per-toolchain step variants (BuildOnly, BuildAndTest,
\* CheckOnly, UnstableFeatures) all carry the toolchain and differ only in
\* the body of run, so they are one step, "Build".
Root == [kind |-> "Root", krate |-> "-", step |-> "-", tc |-> 0]

CrateCompleted(p) == [kind |-> "CrateCompleted", krate |-> p, step |-> "-", tc |-> 0]

PrepareTask(p) == [kind |-> "Task", krate |-> p, step |-> "Prepare", tc |-> 0]

BuildTask(p, t) == [kind |-> "Task", krate |-> p, step |-> "Build", tc |-> t]

IsTask(n) == n.kind = "Task"

NoNode == [kind |-> "None", krate |-> "-", step |-> "-", tc |-> 0]

\* --------------------------------------------------------- TasksGraph ----

\* TasksGraph::new: a graph holding only the root.
NewGraph == [nodes |-> {Root}, edges |-> <<>>, running |-> {}]

RECURSIVE add_edges(_, _, _)
\* add_node's loop: one edge id -> dep per dependency, in order.
add_edges(edges, id, deps) ==
  IF deps = <<>> THEN edges
  ELSE add_edges(Append(edges, <<id, Head(deps)>>), id, Tail(deps))

\* TasksGraph::add_node.
add_node(g, node, deps) ==
  [g EXCEPT !.nodes = @ \cup {node}, !.edges = add_edges(@, node, deps)]

\* TasksGraph::add_task: a Task node with running = false.
add_task(g, task, deps) == add_node(g, task, deps)

\* An add_crate that links the root to the first dependency instead of the
\* new node.
add_crate_root_to_dep(g, p, deps) ==
  LET h == add_node(g, CrateCompleted(p), deps)
  IN  [h EXCEPT !.edges = Append(@, <<Root, Head(deps)>>)]

\* TasksGraph::add_crate: a CrateCompleted node, and the edge root -> it.
add_crate(g, p, deps) ==
  LET h == add_node(g, CrateCompleted(p), deps)
  IN  [h EXCEPT !.edges = Append(@, <<Root, CrateCompleted(p)>>)]

RECURSIVE filter_edges(_, _)
filter_edges(edges, node) ==
  IF edges = <<>> THEN <<>>
  ELSE LET e == Head(edges)
           rest == filter_edges(Tail(edges), node)
       IN  IF e[1] = node \/ e[2] = node THEN rest ELSE <<e>> \o rest

\* TasksGraph::mark_as_completed: graph.remove_node drops the node and
\* every edge touching it; removing an absent node changes nothing.
mark_as_completed(g, node) ==
  [nodes |-> g.nodes \ {node},
   edges |-> filter_edges(g.edges, node),
   running |-> g.running \ {node}]

RECURSIVE neighbors_of(_, _)
\* graph.neighbors(node): the targets of node's outgoing edges.  petgraph
\* links each new edge at the head of the node's edge list, so the iterator
\* yields the most recently added edge first.
neighbors_of(edges, node) ==
  IF edges = <<>> THEN <<>>
  ELSE LET e == Head(edges)
           rest == neighbors_of(Tail(edges), node)
       IN  IF e[1] = node THEN Append(rest, e[2]) ELSE rest

neighbors(g, node) == neighbors_of(g.edges, node)

RECURSIVE incoming_of(_, _)
\* graph.neighbors_directed(node, Incoming): the sources of node's incoming
\* edges, most recently added first.
incoming_of(edges, node) ==
  IF edges = <<>> THEN <<>>
  ELSE LET e == Head(edges)
           rest == incoming_of(Tail(edges), node)
       IN  IF e[2] = node THEN Append(rest, e[1]) ELSE rest

neighbors_incoming(g, node) == incoming_of(g.edges, node)

\* -------------------------------------------------------- build_graph ----

RECURSIVE add_builds(_, _, _, _, _)
\* build_graph's inner loop: one per-toolchain task per toolchain, each
\* depending on prepare_id; returns the graph and `builds`.
add_builds(g, p, prepare_id, tcs, builds) ==
  IF tcs = <<>> THEN [graph |-> g, builds |-> builds]
  ELSE LET build_id == BuildTask(p, Head(tcs))
       IN  add_builds(add_task(g, build_id, <<prepare_id>>), p, prepare_id,
                      Tail(tcs), Append(builds, build_id))

RECURSIVE build_crates(_, _, _)
\* build_graph's outer loop over ex.crates; `skip` is config.should_skip.
build_crates(g, crates, skip) ==
  IF crates = <<>> THEN g
  ELSE LET p == Head(crates)
       IN  IF p \in skip THEN build_crates(g, Tail(crates), skip)
           ELSE LET prepare_id == PrepareTask(p)
                    g1 == add_task(g, prepare_id, <<>>)
                    b  == add_builds(g1, p, prepare_id, Toolchains, <<>>)
                IN  build_crates(add_crate(b.graph, p, b.builds), Tail(crates), skip)

RECURSIVE build_crates_first_prepare(_, _, _, _)
\* An outer loop that keeps the first crate's prepare_id for every crate.
build_crates_first_prepare(g, crates, skip, first) ==
  IF crates = <<>> THEN g
  ELSE LET p == Head(crates)
       IN  IF p \in skip THEN build_crates_first_prepare(g, Tail(crates), skip, first)
           ELSE LET prepare_id == IF first = NoNode THEN PrepareTask(p) ELSE first
                    g1 == add_task(g, PrepareTask(p), <<>>)
                    b  == add_builds(g1, p, prepare_id, Toolchains, <<>>)
                IN  build_crates_first_prepare(add_crate(b.graph, p, b.builds),
                                               Tail(crates), skip, prepare_id)

\* A build_graph whose per-toolchain tasks all depend on the first prepare.
build_graph_first_prepare(crates, skip) ==
  build_crates_first_prepare(NewGraph, crates, skip, NoNode)

\* A build_graph without the config.should_skip check.
build_graph_skips_nothing(crates, skip) == build_crates(NewGraph, crates, {})

build_graph(crates, skip) == build_crates(NewGraph, crates, skip)

\* ------------------------------------------------------ task contract ----

\* Task::needs_exec: a per-toolchain step needs execution when no result is
\* recorded for (krate, tc); Prepare when some toolchain step still does.
needs_exec(task, db) ==
  IF task.step = "Prepare"
  THEN \E t \in TcSet : db[<<task.krate, t>>] = NoResult
  ELSE db[<<task.krate, task.tc>>] = NoResult

\* Task::mark_as_failed: records the outcome for the task's
\* (krate, toolchain); Prepare records nothing.
task_mark_as_failed(task, db, result) ==
  IF task.step = "Prepare" THEN db
  ELSE [db EXCEPT ![<<task.krate, task.tc>>] = result]

\* Task::run returning Ok: the results the task is responsible for are
\* recorded; Prepare records nothing.
task_run_ok(task, db) ==
  IF task.step = "Prepare" THEN db
  ELSE [db EXCEPT ![<<task.krate, task.tc>>] = "TestPass"]

\* ---------------------------------------------------------- walk_graph ---

\* A check with the condition inverted (needs_exec instead of !needs_exec).
already_executed_inverted(g, node, db) ==
  IsTask(node) /\ node \notin g.running /\ needs_exec(node, db)

\* A walk without the check.
already_executed_never(g, node, db) == FALSE

\* walk_graph, first part: a task that is not running and does not need
\* execution is already executed.
already_executed(g, node, db) ==
  IsTask(node) /\ node \notin g.running /\ ~needs_exec(node, db)

\* A loop whose Blocked arm forgets `blocked = true`.
note_blocked_dropped(blocked, result) == blocked

\* The loop's Blocked arm: blocked = true.
note_blocked(blocked, result) == blocked \/ result = "Blocked"

\* A walk whose Task arm forgets `*running = true`.
inspect_node_not_marked(g, node) ==
  IF IsTask(node) /\ node \in g.running
    THEN [result |-> "Blocked", id |-> NoNode, graph |-> g]
  ELSE IF IsTask(node)
    THEN [result |-> "Task", id |-> node, graph |-> g]
  ELSE IF node.kind = "CrateCompleted"
    THEN [result |-> "NotBlocked", id |-> NoNode, graph |-> mark_as_completed(g, node)]
  ELSE [result |-> "Finished", id |-> NoNode, graph |-> g]

\* A match whose CrateCompleted arm also takes Root.
inspect_node_root_not_blocked(g, node) ==
  IF IsTask(node) /\ node \in g.running
    THEN [result |-> "Blocked", id |-> NoNode, graph |-> g]
  ELSE IF IsTask(node)
    THEN [result |-> "Task", id |-> node,
          graph |-> [g EXCEPT !.running = @ \cup {node}]]
  ELSE [result |-> "NotBlocked", id |-> NoNode, graph |-> mark_as_completed(g, node)]

\* A match whose CrateCompleted arm returns Finished.
inspect_node_crate_finished(g, node) ==
  IF IsTask(node) /\ node \in g.running
    THEN [result |-> "Blocked", id |-> NoNode, graph |-> g]
  ELSE IF IsTask(node)
    THEN [result |-> "Task", id |-> node,
          graph |-> [g EXCEPT !.running = @ \cup {node}]]
  ELSE IF node.kind = "CrateCompleted"
    THEN [result |-> "Finished", id |-> NoNode, graph |-> mark_as_completed(g, node)]
  ELSE [result |-> "Finished", id |-> NoNode, graph |-> g]

\* walk_graph, last part: the match on the node once no dependency is left
\* to wait for.
inspect_node(g, node) ==
  IF IsTask(node) /\ node \in g.running
    THEN [result |-> "Blocked", id |-> NoNode, graph |-> g]
  ELSE IF IsTask(node)
    THEN [result |-> "Task", id |-> node,
          graph |-> [g EXCEPT !.running = @ \cup {node}]]
  ELSE IF node.kind = "CrateCompleted"
    THEN [result |-> "NotBlocked", id |-> NoNode, graph |-> mark_as_completed(g, node)]
  ELSE [result |-> "Finished", id |-> NoNode, graph |-> g]

RECURSIVE walk_graph(_, _, _)
RECURSIVE walk_neighbors(_, _, _, _)
RECURSIVE walk_neighbors_stop_at_blocked(_, _, _, _)
RECURSIVE walk_neighbors_blocked_wins(_, _, _, _)

\* A loop that also returns at once on Blocked, leaving the remaining
\* neighbors unvisited.
walk_neighbors_stop_at_blocked(g, ns, blocked, db) ==
  IF ns = <<>> THEN [result |-> "Continue", id |-> NoNode, graph |-> g, blocked |-> blocked]
  ELSE LET r == walk_graph(g, Head(ns), db)
       IN  IF r.result \in {"Task", "Finished"}
           THEN [result |-> r.result, id |-> r.id, graph |-> r.graph, blocked |-> blocked]
           ELSE IF r.result = "Blocked"
           THEN [result |-> "Continue", id |-> NoNode, graph |-> r.graph, blocked |-> TRUE]
           ELSE walk_neighbors_stop_at_blocked(r.graph, Tail(ns), blocked, db)

\* A loop that returns Task or Finished only while no neighbor was Blocked.
walk_neighbors_blocked_wins(g, ns, blocked, db) ==
  IF ns = <<>> THEN [result |-> "Continue", id |-> NoNode, graph |-> g, blocked |-> blocked]
  ELSE LET r == walk_graph(g, Head(ns), db)
       IN  IF r.result \in {"Task", "Finished"} /\ ~blocked
           THEN [result |-> r.result, id |-> r.id, graph |-> r.graph, blocked |-> blocked]
           ELSE walk_neighbors_blocked_wins(r.graph, Tail(ns),
                                            note_blocked(blocked, r.result), db)

\* The loop over the collected neighbors: Task and Finished return at once,
\* Blocked is remembered, NotBlocked goes on.
walk_neighbors(g, ns, blocked, db) ==
  IF ns = <<>> THEN [result |-> "Continue", id |-> NoNode, graph |-> g, blocked |-> blocked]
  ELSE LET r == walk_graph(g, Head(ns), db)
       IN  IF r.result \in {"Task", "Finished"}
           THEN [result |-> r.result, id |-> r.id, graph |-> r.graph, blocked |-> blocked]
           ELSE walk_neighbors(r.graph, Tail(ns), note_blocked(blocked, r.result), db)

walk_graph(g, node, db) ==
  IF already_executed(g, node, db)
  THEN [result |-> "NotBlocked", id |-> NoNode, graph |-> mark_as_completed(g, node)]
  ELSE LET l == walk_neighbors(g, neighbors(g, node), FALSE, db)
       IN  IF l.result \in {"Task", "Finished"}
             THEN [result |-> l.result, id |-> l.id, graph |-> l.graph]
           ELSE IF l.blocked
             THEN [result |-> "Blocked", id |-> NoNode, graph |-> l.graph]
           ELSE inspect_node(l.graph, node)

\* TasksGraph::next_task: the walk from the root.
next_task(g, db) == walk_graph(g, Root, db)

\* ------------------------------------------------------ mark_as_failed ---

\* A cascade that removes whatever node it reaches, CrateCompleted and Root
\* included.
fail_node_removes_any(g, db, node, result) ==
  [graph |-> mark_as_completed(g, node),
   db |-> IF IsTask(node) THEN task_mark_as_failed(node, db, result) ELSE db]

\* mark_as_failed, after the children: a Task records the outcome and is
\* removed; CrateCompleted and Root return without being removed.
fail_node(g, db, node, result) ==
  IF IsTask(node)
  THEN [graph |-> mark_as_completed(g, node),
        db |-> task_mark_as_failed(node, db, result)]
  ELSE [graph |-> g, db |-> db]

\* A mark_as_failed without the loop over the incoming neighbors.
mark_as_failed_no_cascade(g, db, node, result) ==
  fail_node(g, db, node, result)

RECURSIVE mark_as_failed(_, _, _, _)
RECURSIVE fail_children(_, _, _, _)

\* The loop over the collected incoming neighbors.
fail_children(g, db, children, result) ==
  IF children = <<>> THEN [graph |-> g, db |-> db]
  ELSE LET s == mark_as_failed(g, db, Head(children), result)
       IN  fail_children(s.graph, s.db, Tail(children), result)

mark_as_failed(g, db, node, result) ==
  LET s == fail_children(g, db, neighbors_incoming(g, node), result)
  IN  fail_node(s.graph, s.db, node, result)

\* ------------------------------------------------------------- run_ex ----

VARIABLES
  graph,     \* the TasksGraph behind the `graph` mutex
  db,        \* the result store: (krate, toolchain) -> outcome or NoResult
  lock,      \* the worker holding the graph mutex, or NoWorker
  pc,        \* each worker's position in the loop of run_ex
  cur,       \* the Task(id, task) each worker received from next_task
  outcome,   \* the TestResult each worker passes to mark_as_failed
  parked,    \* the parked_threads map (its keys)
  token,     \* each worker thread's park token (set by unpark)
  skip,      \* config.should_skip, as the set of skipped crates
  broken,    \* config.is_broken, as the set of broken crates, known for
             \* the crates in `asked`
  asked,     \* the crates config.is_broken has been consulted for
  db0,       \* history: the result store when the run started
  executed,  \* history: the tasks on which task.run was called
  failedRuns \* history: the crates of the tasks whose task.run returned Err

VARIABLES
  experiments, \* the `experiments` table: name -> row
  data,        \* the ExperimentData the last call worked on, or NoData
  now,         \* the clock read by Utc::now()
  ret,         \* what the last call on the experiments store returned
  calls        \* the calls of next in progress, one per agent: where the
               \* call is, the ExperimentData it holds, what it returned

\* The state of run_ex.
runVars == <<graph, db, lock, pc, cur, outcome, parked, token, skip, broken, asked,
             db0, executed, failedRuns>>

\* The state of the experiments store.
exVars == <<experiments, data, now, ret, calls>>

vars == <<runVars, exVars>>

\* None of Option<DateTime<Utc>>.
NoTime == 0

\* None of Option<String> (assigned_to).
NoAgent == "None"

\* No ExperimentData in memory.
NoData == [name |-> "None"]

\* What a call on the store returned: the call, and its value: Ok(()),
\* Err(_), or for next(agent) None or Some((is_new, experiment)).
RetOk(call) ==
  [call |-> call, agent |-> NoAgent, value |-> "Ok", is_new |-> FALSE, name |-> "None"]

RetErr(call) ==
  [call |-> call, agent |-> NoAgent, value |-> "Err", is_new |-> FALSE, name |-> "None"]

NextNone(agent) ==
  [call |-> "next", agent |-> agent, value |-> "None", is_new |-> FALSE, name |-> "None"]

NextSome(agent, is_new, name) ==
  [call |-> "next", agent |-> agent, value |-> "Some", is_new |-> is_new, name |-> name]

\* The experiments store while run_ex is looked at: an empty table; run_ex
\* receives its Experiment as an argument and never touches the table.
NoStore ==
  /\ experiments = <<>>
  /\ data = NoData
  /\ now = NoTime
  /\ ret = RetOk("new")
  /\ calls = <<>>

\* The result stores a run may start from: any results of the first crate,
\* every other crate recorded for all its toolchains or for none.
ResumeStores ==
  {s \in [Keys -> {NoResult, "TestPass"}] :
     \A i \in 2..Len(Crates) :
       \A t1, t2 \in TcSet : s[<<Crates[i], t1>>] = s[<<Crates[i], t2>>]}

\* run_ex up to the spawn of the workers: the graph is built from the
\* experiment and the configuration; the result store may already hold
\* results of an interrupted run (none for a skipped crate).  The
\* configuration is fixed for the run; what it says of a crate being broken
\* is drawn when is_broken is first consulted for that crate and kept.
Init ==
  /\ skip \in SUBSET CrateSet
  /\ broken = {}
  /\ asked = {}
  /\ db0 \in ResumeStores
  /\ \A k \in Keys : k[1] \in skip => db0[k] = NoResult
  /\ db = db0
  /\ graph = build_graph(Crates, skip)
  /\ lock = NoWorker
  /\ pc = [w \in Workers |-> "loop"]
  /\ cur = [w \in Workers |-> NoNode]
  /\ outcome = [w \in Workers |-> NoResult]
  /\ parked = {}
  /\ token = [w \in Workers |-> FALSE]
  /\ executed = {}
  /\ failedRuns = {}
  /\ NoStore

\* The match on walk_result: the arm the worker enters.
walk_arm(result) ==
  CASE result = "Task" -> "run"
    [] result = "Blocked" -> "register"
    [] result = "NotBlocked" -> "unreachable"
    [] result = "Finished" -> "done"

\* A guard bound to a name (`while let`), alive for the whole match.
lock_kept_across_match(w) == w

\* The graph mutex once `graph.lock().unwrap().next_task(ex, db)` has been
\* evaluated: the guard is a temporary of the let statement.
lock_after_next_task(w) == NoWorker

\* let walk_result = graph.lock().unwrap().next_task(ex, db);
\* the mutex is taken, the walk done and the guard dropped in one statement.
NextTask(w) ==
  /\ pc[w] = "loop"
  /\ lock = NoWorker
  /\ LET r == next_task(graph, db)
     IN  /\ graph' = r.graph
         /\ cur' = [cur EXCEPT ![w] = r.id]
         /\ pc' = [pc EXCEPT ![w] = walk_arm(r.result)]
         /\ executed' = IF r.result = "Task" THEN executed \cup {r.id} ELSE executed
  /\ lock' = lock_after_next_task(w)
  /\ UNCHANGED <<db, outcome, parked, token, skip, broken, asked, db0, failedRuns,
                 exVars>>

\* task.run(config, ex, db) returns Ok, having recorded its results, and
\* the worker takes the graph mutex for mark_as_completed.  The write is to
\* the key of a running node, which no walk and no cascade of another
\* worker reads or writes, so it is one step with the lock().
RunOk(w) ==
  /\ pc[w] = "run"
  /\ lock = NoWorker
  /\ db' = task_run_ok(cur[w], db)
  /\ lock' = w
  /\ pc' = [pc EXCEPT ![w] = "mark_as_completed"]
  /\ UNCHANGED <<graph, cur, outcome, parked, token, skip, broken, asked, db0,
                 executed, failedRuns,
                 exVars>>

\* The outcome a failed task is reported with.
failure_result(krate, brokenCrates) ==
  IF krate \in brokenCrates THEN "BuildFail" ELSE "Error"

\* task.run(config, ex, db) returns Err: the outcome is chosen from
\* config.is_broken and the worker takes the graph mutex for mark_as_failed.
RunErr(w) ==
  /\ pc[w] = "run"
  /\ lock = NoWorker
  /\ \E b \in BOOLEAN :
       /\ cur[w].krate \in asked => b = (cur[w].krate \in broken)
       /\ b => cur[w].krate \in BrokenCandidates
       /\ broken' = IF b THEN broken \cup {cur[w].krate} ELSE broken
       /\ outcome' = [outcome EXCEPT ![w] = failure_result(cur[w].krate, broken')]
  /\ asked' = asked \cup {cur[w].krate}
  /\ failedRuns' = failedRuns \cup {cur[w].krate}
  /\ lock' = w
  /\ pc' = [pc EXCEPT ![w] = "mark_as_failed"]
  /\ UNCHANGED <<graph, db, cur, parked, token, skip, db0, executed,
                 exVars>>

\* graph.lock().unwrap().mark_as_completed(id); id and task are not used
\* again.
MarkAsCompleted(w) ==
  /\ pc[w] = "mark_as_completed"
  /\ lock = w
  /\ graph' = mark_as_completed(graph, cur[w])
  /\ lock' = NoWorker
  /\ cur' = [cur EXCEPT ![w] = NoNode]
  /\ pc' = [pc EXCEPT ![w] = "unpark"]
  /\ UNCHANGED <<db, outcome, parked, token, skip, broken, asked, db0, executed,
                 failedRuns,
                 exVars>>

\* graph.lock().unwrap().mark_as_failed(id, ex, db, &e, result)?; id, task
\* and result are not used again.
MarkAsFailed(w) ==
  /\ pc[w] = "mark_as_failed"
  /\ lock = w
  /\ LET s == mark_as_failed(graph, db, cur[w], outcome[w])
     IN  /\ graph' = s.graph
         /\ db' = s.db
  /\ lock' = NoWorker
  /\ cur' = [cur EXCEPT ![w] = NoNode]
  /\ outcome' = [outcome EXCEPT ![w] = NoResult]
  /\ pc' = [pc EXCEPT ![w] = "unpark"]
  /\ UNCHANGED <<parked, token, skip, broken, asked, db0, executed,
                 failedRuns,
                 exVars>>

\* Unpark all the threads: the parked map is drained under its mutex and
\* every thread in it is unparked (its token is set).
UnparkAll(w) ==
  /\ pc[w] = "unpark"
  /\ token' = [t \in Workers |-> token[t] \/ t \in parked]
  /\ parked' = {}
  /\ pc' = [pc EXCEPT ![w] = "loop"]
  /\ UNCHANGED <<graph, db, lock, cur, outcome, skip, broken, asked, db0, executed, failedRuns,
                 exVars>>

\* The Blocked arm, first statement: the worker inserts itself in the
\* parked map under the map's mutex.
Register(w) ==
  /\ pc[w] = "register"
  /\ parked' = parked \cup {w}
  /\ pc' = [pc EXCEPT ![w] = "park"]
  /\ UNCHANGED <<graph, db, lock, cur, outcome, token, skip, broken, asked, db0,
                 executed, failedRuns,
                 exVars>>

\* thread::park() returning because the token is set: the token is consumed.
Park(w) ==
  /\ pc[w] = "park"
  /\ token[w]
  /\ token' = [token EXCEPT ![w] = FALSE]
  /\ pc' = [pc EXCEPT ![w] = "loop"]
  /\ UNCHANGED <<graph, db, lock, cur, outcome, parked, skip, broken, asked, db0,
                 executed, failedRuns,
                 exVars>>

\* thread::park() returning spuriously: allowed, never guaranteed.
SpuriousWakeup(w) ==
  /\ pc[w] = "park"
  /\ ~token[w]
  /\ pc' = [pc EXCEPT ![w] = "loop"]
  /\ UNCHANGED <<graph, db, lock, cur, outcome, parked, token, skip, broken,
                 asked, db0, executed, failedRuns,
                 exVars>>

\* What a worker thread does without help from a spurious wakeup.
WorkerStep(w) ==
  \/ NextTask(w)
  \/ RunOk(w)
  \/ RunErr(w)
  \/ MarkAsCompleted(w)
  \/ MarkAsFailed(w)
  \/ UnparkAll(w)
  \/ Register(w)
  \/ Park(w)

Next == \E w \in Workers : WorkerStep(w) \/ SpuriousWakeup(w)

Spec == Init /\ [][Next]_vars

\* graph.lock().unwrap().mark_as_failed(id, ex, db, &e, result)? when the
\* result store fails on the first outcome the cascade records: the
\* recursion returns the Err before any node is removed, the guard is
\* dropped, and `?` returns the Err from the worker's closure: the thread
\* exits without marking its node and without unparking anyone.
MarkAsFailedErr(w) ==
  /\ pc[w] = "mark_as_failed"
  /\ lock = w
  /\ lock' = NoWorker
  /\ cur' = [cur EXCEPT ![w] = NoNode]
  /\ outcome' = [outcome EXCEPT ![w] = NoResult]
  /\ pc' = [pc EXCEPT ![w] = "failed"]
  /\ UNCHANGED <<graph, db, parked, token, skip, broken, asked, db0, executed,
                 failedRuns, exVars>>

\* run_ex with a result store that may fail.
ErrNext == Next \/ \E w \in Workers : MarkAsFailedErr(w)

ErrSpec == Init /\ [][ErrNext]_vars

\* -------------------------------------------------- experiments store ----

\* The latest value the clock is followed to.
MaxTime == 2

\* enum Status, by its database strings.
Statuses ==
  {"queued", "running", "needs-report", "generating-report", "report-failed",
   "completed"}

\* The agents of the `agents` table.
Agents == {"agent-1", "agent-2", "agent-3"}

\* The experiments of the table, in the order they were created.
ExNames == <<"test", "important">>

ExNameSet == {ExNames[i] : i \in 1..Len(ExNames)}

\* The priorities an experiment is created with.
Priorities == {0, 10}

\* The toolchains an experiment may be given.
ToolchainNames == {"stable", "beta", "nightly"}

\* ExperimentDBRecord::into_experiment_data: the ExperimentData read from a
\* row, the two toolchain columns becoming experiment.toolchains.
into_experiment_data(name, row) ==
  [name |-> name,
   priority |-> row.priority,
   created_at |-> row.created_at,
   started_at |-> row.started_at,
   completed_at |-> row.completed_at,
   status |-> row.status,
   assigned_to |-> row.assigned_to,
   toolchains |-> <<row.toolchain_start, row.toolchain_end>>]

\* Experiments::get of an existing experiment.
get(table, name) == into_experiment_data(name, table[name])

\* A set_status that stamps started_at on every transition to Running.
set_status_restamps(self, table, status, t) ==
  LET stored == [table EXCEPT ![self.name].status = status]
  IN  IF status = "running"
      THEN [data |-> [self EXCEPT !.started_at = t, !.status = status],
            table |-> [stored EXCEPT ![self.name].started_at = t]]
      ELSE IF self.status = "running" /\ self.completed_at = NoTime
      THEN [data |-> [self EXCEPT !.completed_at = t, !.status = status],
            table |-> [stored EXCEPT ![self.name].completed_at = t]]
      ELSE [data |-> [self EXCEPT !.status = status], table |-> stored]

\* A set_status that stamps completed_at only when the new status is
\* Completed.
set_status_stamps_on_completed(self, table, status, t) ==
  LET stored == [table EXCEPT ![self.name].status = status]
  IN  IF status = "running" /\ self.started_at = NoTime
      THEN [data |-> [self EXCEPT !.started_at = t, !.status = status],
            table |-> [stored EXCEPT ![self.name].started_at = t]]
      ELSE IF status = "completed" /\ self.completed_at = NoTime
      THEN [data |-> [self EXCEPT !.completed_at = t, !.status = status],
            table |-> [stored EXCEPT ![self.name].completed_at = t]]
      ELSE [data |-> [self EXCEPT !.status = status], table |-> stored]

\* ExperimentData::set_status, with t the value of Utc::now(): the status
\* column is updated first, whatever the old status; then started_at is
\* stamped, or else completed_at; then the in-memory status is set.
set_status(self, table, status, t) ==
  LET stored == [table EXCEPT ![self.name].status = status]
  IN  IF status = "running" /\ self.started_at = NoTime
      THEN [data |-> [self EXCEPT !.started_at = t, !.status = status],
            table |-> [stored EXCEPT ![self.name].started_at = t]]
      ELSE IF self.status = "running" /\ self.completed_at = NoTime
      THEN [data |-> [self EXCEPT !.completed_at = t, !.status = status],
            table |-> [stored EXCEPT ![self.name].completed_at = t]]
      ELSE [data |-> [self EXCEPT !.status = status], table |-> stored]

\* ExperimentData::set_assigned_to.
set_assigned_to(self, table, assigned_to) ==
  [data |-> [self EXCEPT !.assigned_to = assigned_to],
   table |-> [table EXCEPT ![self.name].assigned_to = assigned_to]]

\* Experiments::run_by_agent: the rows WHERE status = "running" AND
\* assigned_to = agent; get_row takes one of them (the query has no ORDER BY).
run_by_agent(table, agent) ==
  {n \in DOMAIN table : table[n].status = "running" /\ table[n].assigned_to = agent}

\* An ordering by created_at alone.
ordered_before_by_creation(table, a, b) ==
  table[a].created_at < table[b].created_at

\* ORDER BY priority DESC, created_at: row a comes before row b.
ordered_before(table, a, b) ==
  \/ table[a].priority > table[b].priority
  \/ /\ table[a].priority = table[b].priority
     /\ table[a].created_at < table[b].created_at

\* The query of Experiments::next (and of first_by_status): the first row
\* with the status in that order, as a set (empty when there is none).
first_by_status(table, status) ==
  {n \in DOMAIN table :
     /\ table[n].status = status
     /\ \A m \in DOMAIN table :
          (m # n /\ table[m].status = status) => ordered_before(table, n, m)}

\* ex.validate(): the two toolchains must differ.
validate(self) == self.toolchains[1] # self.toolchains[2]

\* ExperimentData::set_start_toolchain: the in-memory toolchain is assigned,
\* then validated; the column is updated only when validate() passed.
set_start_toolchain(self, table, start) ==
  LET assigned == [self EXCEPT !.toolchains[1] = start]
  IN  IF validate(assigned)
      THEN [ret |-> RetOk("set_start_toolchain"), data |-> assigned,
            table |-> [table EXCEPT ![self.name].toolchain_start = assigned.toolchains[1]]]
      ELSE [ret |-> RetErr("set_start_toolchain"), data |-> assigned, table |-> table]

\* ExperimentData::set_end_toolchain.
set_end_toolchain(self, table, end) ==
  LET assigned == [self EXCEPT !.toolchains[2] = end]
  IN  IF validate(assigned)
      THEN [ret |-> RetOk("set_end_toolchain"), data |-> assigned,
            table |-> [table EXCEPT ![self.name].toolchain_end = assigned.toolchains[2]]]
      ELSE [ret |-> RetErr("set_end_toolchain"), data |-> assigned, table |-> table]

\* run_ex while the experiments store is looked at: no run is in progress.
NoRun ==
  /\ skip = {}
  /\ broken = {}
  /\ asked = {}
  /\ db0 = [k \in Keys |-> NoResult]
  /\ db = db0
  /\ graph = NewGraph
  /\ lock = NoWorker
  /\ pc = [w \in Workers |-> "done"]
  /\ cur = [w \in Workers |-> NoNode]
  /\ outcome = [w \in Workers |-> NoResult]
  /\ parked = {}
  /\ token = [w \in Workers |-> FALSE]
  /\ executed = {}
  /\ failedRuns = {}

\* No call of next is in progress.
NoCalls ==
  [agent \in Agents |->
     [pc |-> "idle", experiment |-> NoData, result |-> RetOk("none")]]

\* The store after the experiments were created (CreateExperiment): each
\* one queued, unassigned, without timestamps, with two different
\* toolchains; created one after the other, the first with the default
\* priority and the others with any.
ExInit ==
  /\ \E prio \in {f \in [ExNameSet -> Priorities] : f[ExNames[1]] = 0} :
       experiments =
         [n \in ExNameSet |->
            [priority |-> prio[n],
             created_at |-> CHOOSE i \in 1..Len(ExNames) : ExNames[i] = n,
             started_at |-> NoTime,
             completed_at |-> NoTime,
             status |-> "queued",
             assigned_to |-> NoAgent,
             toolchain_start |-> "stable",
             toolchain_end |-> "beta"]]
  /\ data = NoData
  /\ now = 1
  /\ ret = RetOk("create")
  /\ calls = NoCalls
  /\ NoRun

\* A next without the run_by_agent check.
assigned_already_unchecked(table, agent) == {}

\* Experiments::next, first statement: the experiment the agent already
\* runs, if any.
assigned_already(table, agent) == run_by_agent(table, agent)

\* Experiments::next(agent).
ExperimentsNext(agent) ==
  /\ IF assigned_already(experiments, agent) # {}
     THEN \E n \in assigned_already(experiments, agent) :
            /\ ret' = NextSome(agent, FALSE, n)
            /\ data' = get(experiments, n)
            /\ UNCHANGED experiments
     ELSE IF first_by_status(experiments, "queued") # {}
     THEN \E n \in first_by_status(experiments, "queued") :
            LET s == set_status(get(experiments, n), experiments, "running", now)
                a == set_assigned_to(s.data, s.table, agent)
            IN  /\ experiments' = a.table
                /\ data' = a.data
                /\ ret' = NextSome(agent, TRUE, n)
     ELSE /\ ret' = NextNone(agent)
          /\ data' = NoData
          /\ UNCHANGED experiments
  /\ UNCHANGED <<now, calls, runVars>>

\* set_status called on the ExperimentData just read from the store.
SetStatus(name, status) ==
  /\ LET s == set_status(get(experiments, name), experiments, status, now)
     IN  /\ experiments' = s.table
         /\ data' = s.data
  /\ ret' = RetOk("set_status")
  /\ UNCHANGED <<now, calls, runVars>>

\* The transitions of the status state machine.
Transitions ==
  {<<"queued", "running">>, <<"running", "needs-report">>,
   <<"needs-report", "generating-report">>, <<"generating-report", "completed">>,
   <<"generating-report", "report-failed">>, <<"report-failed", "generating-report">>,
   <<"running", "queued">>}

\* A status change the callers of the store make themselves: any
\* transition of the state machine but the one to Running, which is made
\* by next.
Transition(name, status) ==
  /\ <<experiments[name].status, status>> \in Transitions
  /\ status # "running"
  /\ SetStatus(name, status)

\* set_assigned_to called on the ExperimentData just read from the store.
SetAssignedTo(name, assigned_to) ==
  /\ LET s == set_assigned_to(get(experiments, name), experiments, assigned_to)
     IN  /\ experiments' = s.table
         /\ data' = s.data
  /\ ret' = RetOk("set_assigned_to")
  /\ UNCHANGED <<now, calls, runVars>>

\* set_start_toolchain called on the ExperimentData just read from the
\* store.
SetStartToolchain(name, start) ==
  /\ LET s == set_start_toolchain(get(experiments, name), experiments, start)
     IN  /\ experiments' = s.table
         /\ data' = s.data
         /\ ret' = s.ret
  /\ UNCHANGED <<now, calls, runVars>>

\* set_end_toolchain called on the ExperimentData just read from the store.
SetEndToolchain(name, end) ==
  /\ LET s == set_end_toolchain(get(experiments, name), experiments, end)
     IN  /\ experiments' = s.table
         /\ data' = s.data
         /\ ret' = s.ret
  /\ UNCHANGED <<now, calls, runVars>>

\* Time passes: the clock never goes back.
Tick ==
  /\ now < MaxTime
  /\ now' = now + 1
  /\ UNCHANGED <<experiments, data, ret, calls, runVars>>

\* The store under every call of its status and assignment mutators.
ExNext ==
  \/ \E agent \in Agents : ExperimentsNext(agent)
  \/ \E name \in ExNameSet, status \in Statuses : SetStatus(name, status)
  \/ \E name \in ExNameSet, a \in Agents \cup {NoAgent} : SetAssignedTo(name, a)
  \/ Tick

ExSpec == ExInit /\ [][ExNext]_vars

\* The store as its callers drive it: agents ask for work with next, and
\* experiments move along the state machine.
AssignNext ==
  \/ \E agent \in Agents : ExperimentsNext(agent)
  \/ \E name \in ExNameSet, status \in Statuses : Transition(name, status)
  \/ Tick

AssignSpec == ExInit /\ [][AssignNext]_vars

\* The store under the toolchain mutators.
TcNext ==
  \/ \E name \in ExNameSet, tc \in ToolchainNames : SetStartToolchain(name, tc)
  \/ \E name \in ExNameSet, tc \in ToolchainNames : SetEndToolchain(name, tc)

TcSpec == ExInit /\ [][TcNext]_vars

\* Experiments::next(agent) called by several agents at once.  The store
\* runs each statement of a call by itself: next opens no transaction and
\* takes no lock, so the statements of two calls interleave.

\* next, first statement: self.run_by_agent(agent)?, and the early return.
CallRunByAgent(agent) ==
  /\ calls[agent].pc = "idle"
  /\ IF assigned_already(experiments, agent) # {}
     THEN \E n \in assigned_already(experiments, agent) :
            calls' = [calls EXCEPT ![agent] =
                        [pc |-> "returned", experiment |-> get(experiments, n),
                         result |-> NextSome(agent, FALSE, n)]]
     ELSE calls' = [calls EXCEPT ![agent].pc = "select"]
  /\ UNCHANGED <<experiments, data, now, ret, runVars>>

\* next, the query for the first Queued experiment and
\* into_experiment_data; Ok(None) when there is none.
CallSelect(agent) ==
  /\ calls[agent].pc = "select"
  /\ IF first_by_status(experiments, "queued") # {}
     THEN \E n \in first_by_status(experiments, "queued") :
            calls' = [calls EXCEPT ![agent].pc = "set_status",
                                   ![agent].experiment = get(experiments, n)]
     ELSE calls' = [calls EXCEPT ![agent].pc = "returned",
                                 ![agent].result = NextNone(agent)]
  /\ UNCHANGED <<experiments, data, now, ret, runVars>>

\* next: experiment.set_status(&self.db, Status::Running)?.
CallSetStatus(agent) ==
  /\ calls[agent].pc = "set_status"
  /\ LET s == set_status(calls[agent].experiment, experiments, "running", now)
     IN  /\ experiments' = s.table
         /\ calls' = [calls EXCEPT ![agent].pc = "set_assigned_to",
                                    ![agent].experiment = s.data]
  /\ UNCHANGED <<data, now, ret, runVars>>

\* next: experiment.set_assigned_to(&self.db, Some(agent.into()))?, and
\* Ok(Some((true, experiment))).
CallSetAssignedTo(agent) ==
  /\ calls[agent].pc = "set_assigned_to"
  /\ LET s == set_assigned_to(calls[agent].experiment, experiments, agent)
     IN  /\ experiments' = s.table
         /\ calls' = [calls EXCEPT ![agent] =
                         [pc |-> "returned", experiment |-> s.data,
                          result |-> NextSome(agent, TRUE, s.data.name)]]
  /\ UNCHANGED <<data, now, ret, runVars>>

\* Every agent calls next once, the calls running concurrently.
ConcNext ==
  \E agent \in Agents :
    \/ CallRunByAgent(agent)
    \/ CallSelect(agent)
    \/ CallSetStatus(agent)
    \/ CallSetAssignedTo(agent)

ConcSpec == ExInit /\ [][ConcNext]_vars

\* ============================================================== claims ===

\* A worker owns the task it received until it has marked it.
Holding(w) == pc[w] \in {"run", "mark_as_completed", "mark_as_failed"}

AllDone == \A w \in Workers : pc[w] = "done"

\* C1: exclusive task ownership: at no time do two workers own the same
\* Task node, and a node owned by a worker is marked running in the graph
\* (so next_task cannot return it again before it is marked completed or
\* failed).
C1_ExclusiveOwnership ==
  \A w1 \in Workers :
    Holding(w1) =>
      /\ cur[w1] \in graph.running
      /\ \A w2 \in Workers \ {w1} : Holding(w2) => cur[w2] # cur[w1]

\* Two workers run two different tasks at the same time.
C1_Witness ==
  \E w1, w2 \in Workers :
    /\ w1 # w2
    /\ pc[w1] = "run" /\ pc[w2] = "run"
    /\ cur[w1] # cur[w2]

\* C2: no worker holds the graph mutex while it executes task.run: the lock
\* taken for next_task is released before run starts, and is held again
\* only for mark_as_completed and mark_as_failed, after run has returned.
C2_NoLockAcrossRun ==
  \A w \in Workers :
    /\ pc[w] = "run" => lock # w
    /\ lock = w => pc[w] \in {"mark_as_completed", "mark_as_failed"}

\* One worker is inside task.run while another holds the graph mutex.
C2_Witness ==
  \E w1, w2 \in Workers :
    /\ pc[w1] = "run"
    /\ lock = w2
    /\ w2 # w1

\* A worker thread can take its next step by itself: it has not exited, the
\* mutex it asks for is free, and if it is in thread::park() its token is
\* set (a spurious wakeup is never promised).
CanStep(w) ==
  /\ pc[w] \notin {"done", "unreachable"}
  /\ pc[w] \in {"loop", "run"} => lock = NoWorker
  /\ pc[w] = "park" => token[w]

\* C3: termination of the worker pool: every worker eventually observes
\* Finished and exits; a worker that parked on Blocked is always woken by a
\* later completion.  Its safety part: as long as some worker has not
\* exited, some worker can take a step, so no worker is left in
\* thread::park() with nobody to unpark it.
C3_NoLostWakeup == AllDone \/ \E w \in Workers : CanStep(w)

\* C4: dependency ordering: a Task node that has been handed out (is
\* running) has no out-neighbor left in the graph; a per-toolchain task of a
\* crate is never running while the crate's Prepare node is present.
C4_DependenciesGone ==
  \A n \in graph.running :
    /\ neighbors(graph, n) = <<>>
    /\ n.step = "Build" => PrepareTask(n.krate) \notin graph.nodes

\* A per-toolchain task runs after the Prepare task it depended on was
\* executed and removed.
C4_Witness ==
  \E w \in Workers :
    /\ pc[w] = "run"
    /\ cur[w].step = "Build"
    /\ PrepareTask(cur[w].krate) \in executed
    /\ PrepareTask(cur[w].krate) \notin graph.nodes

\* The edges of a graph, as a set.
EdgeSet(g) == {g.edges[i] : i \in DOMAIN g.edges}

RECURSIVE DependentsOf(_, _)
\* The nodes from which some node of S is reached along edges (S included).
DependentsOf(g, S) ==
  LET T == S \cup {e[1] : e \in {x \in EdgeSet(g) : x[2] \in S}}
  IN  IF T = S THEN S ELSE DependentsOf(g, T)

\* The Task nodes that transitively depend on node n, and n itself.
FailedWith(g, n) == {d \in DependentsOf(g, {n}) : IsTask(d)}

\* Worker w's mark_as_failed call takes place in this step.
MarkAsFailedStep(w) == pc[w] = "mark_as_failed" /\ pc'[w] = "unpark"

\* C5: failure recording and classification: mark_as_failed is called with
\* BuildFail when the failing task's crate is broken and with Error
\* otherwise, and that outcome is what the result store holds afterwards for
\* the (crate, toolchain) of the failing task and of every Task node that
\* transitively depends on it.
C5_FailureRecorded ==
  [][\A w \in Workers :
       MarkAsFailedStep(w) =>
         /\ outcome[w] = (IF cur[w].krate \in broken THEN "BuildFail" ELSE "Error")
         /\ \A d \in FailedWith(graph, cur[w]) :
              d.step = "Build" => db'[<<d.krate, d.tc>>] = outcome[w]]_vars

\* The Prepare task of a broken crate has failed, and both toolchains of the
\* crate are recorded as BuildFail although they had no result and their
\* tasks never ran.
C5_Witness ==
  \E p \in CrateSet :
    /\ p \in failedRuns /\ p \in broken
    /\ \A t \in TcSet :
         /\ db0[<<p, t>>] = NoResult
         /\ db[<<p, t>>] = "BuildFail"
         /\ BuildTask(p, t) \notin executed

\* C6: mark_as_failed(n) removes exactly n and the Task nodes that
\* transitively depend on n; the CrateCompleted and Root nodes the recursion
\* reaches stay, and so does every other node.
C6_FailedRemoval ==
  [][\A w \in Workers :
       MarkAsFailedStep(w) =>
         graph'.nodes = graph.nodes \ FailedWith(graph, cur[w])]_vars

\* mark_as_failed has just run on a Prepare node: the node and both
\* per-toolchain tasks are gone, the crate's CrateCompleted and Root remain.
C6_Witness ==
  \E w \in Workers, p \in CrateSet :
    /\ pc[w] = "unpark"
    /\ p \in failedRuns
    /\ PrepareTask(p) \in executed
    /\ PrepareTask(p) \notin graph.nodes
    /\ \A t \in TcSet :
         BuildTask(p, t) \notin executed \cup graph.nodes /\ db0[<<p, t>>] = NoResult
    /\ CrateCompleted(p) \in graph.nodes
    /\ Root \in graph.nodes

\* Some worker has received Finished from next_task.
SomeDone == \E w \in Workers : pc[w] = "done"

\* C7: failure isolation: a mark_as_failed on a task of one crate removes
\* no node of another crate and records no result for another crate, and
\* the tasks of a crate none of whose tasks failed are still run: when the
\* run is finished each of its missing results has been produced by its own
\* task.
C7_FailureIsolation ==
  /\ [][\A w \in Workers :
          MarkAsFailedStep(w) =>
            /\ \A n \in graph.nodes : n.krate # cur[w].krate => n \in graph'.nodes
            /\ \A k \in Keys : k[1] # cur[w].krate => db'[k] = db[k]]_vars
  /\ [](SomeDone =>
          \A k \in Keys :
            (k[1] \notin skip \cup failedRuns /\ db0[k] = NoResult) =>
               /\ BuildTask(k[1], k[2]) \in executed
               /\ db[k] = "TestPass")

\* The run is finished; a task of one crate failed, and another crate,
\* which had no result, has both its results from its own tasks.
C7_Witness ==
  /\ AllDone
  /\ \E p, q \in CrateSet :
       /\ p \in failedRuns
       /\ q \notin failedRuns \cup skip
       /\ \A t \in TcSet :
            /\ db0[<<q, t>>] = NoResult
            /\ db[<<q, t>>] = "TestPass"
            /\ BuildTask(q, t) \in executed

\* The keys of the result store that hold a result.
Recorded(store) == {k \in Keys : store[k] # NoResult}

\* C8: result completeness: from an empty result store, when the run has
\* finished and every task.run succeeded, the store holds exactly one
\* result per (non-skipped crate, toolchain): 2 x k results.
C8_ResultCompleteness ==
  (AllDone /\ Recorded(db0) = {} /\ failedRuns = {}) =>
    /\ Recorded(db) = (CrateSet \ skip) \X TcSet
    /\ Cardinality(Recorded(db)) = 2 * Cardinality(CrateSet \ skip)

\* A finished run of two crates from an empty store, without a failure.
C8_Witness ==
  /\ AllDone
  /\ Recorded(db0) = {}
  /\ failedRuns = {}
  /\ skip = {}
  /\ Cardinality(Recorded(db)) = 4

\* The per-toolchain tasks among a set of nodes.
BuildsIn(S) == {n \in S : n.step = "Build"}

\* C9: resume skips recorded work: next_task never returns a task whose
\* needs_exec is false at the time of the call; and with 3 of the 4 results
\* of two crates recorded beforehand, a run to Finished without a failure
\* executes exactly one per-toolchain task, the missing one, and never the
\* Prepare of the crate that was already done.
C9_ResumeSkipsRecorded ==
  /\ [][\A w \in Workers :
          (pc[w] = "loop" /\ pc'[w] = "run") => needs_exec(cur'[w], db)]_vars
  /\ [](\A k \in Keys :
          (AllDone /\ skip = {} /\ failedRuns = {} /\ Recorded(db0) = Keys \ {k}) =>
             /\ BuildsIn(executed) = {BuildTask(k[1], k[2])}
             /\ \A p \in CrateSet \ {k[1]} : PrepareTask(p) \notin executed)

\* A finished run that started with 3 of the 4 results and ran one
\* per-toolchain task.
C9_Witness ==
  /\ AllDone
  /\ skip = {}
  /\ failedRuns = {}
  /\ Cardinality(Recorded(db0)) = 3
  /\ Cardinality(BuildsIn(executed)) = 1
  /\ Recorded(db) = Keys

\* C10: whenever next_task has returned Finished, Root is the only node
\* remaining in the graph, whatever the result store held at the start.
C10_OnlyRootAtFinished == SomeDone => graph.nodes = {Root}

\* Worker w's next_task call returns Blocked in this step.
BlockedStep(w) == pc[w] = "loop" /\ pc'[w] = "register"

\* C11 as stated: whenever next_task returns Blocked, every unfinished Task
\* node still in the graph is running on some worker.
C11_BlockedAllRunning ==
  [][\A w \in Workers :
       BlockedStep(w) =>
         \A n \in graph'.nodes :
           (IsTask(n) /\ needs_exec(n, db')) => n \in graph'.running]_vars

RECURSIVE DependenciesOf(_, _)
\* The nodes reached from some node of S along edges (S included).
DependenciesOf(g, S) ==
  LET T == S \cup {e[2] : e \in {x \in EdgeSet(g) : x[1] \in S}}
  IN  IF T = S THEN S ELSE DependenciesOf(g, T)

\* C11, amended: whenever next_task returns Blocked, some Task node is
\* running, and every unfinished Task node still in the graph is running or
\* waits, directly or through other tasks, for a running Task node.
C11_BlockedRunningOrWaiting ==
  [][\A w \in Workers :
       BlockedStep(w) =>
         /\ graph'.running # {}
         /\ \A n \in graph'.nodes :
              (IsTask(n) /\ needs_exec(n, db')) =>
                DependenciesOf(graph', {n}) \cap graph'.running # {}]_vars

\* A worker has received Blocked while the Prepare task of a crate runs on
\* another worker and the crate's per-toolchain tasks wait for it.
C11_Witness ==
  \E w1, w2 \in Workers, p \in CrateSet :
    /\ pc[w1] = "register"
    /\ pc[w2] = "run" /\ cur[w2] = PrepareTask(p)
    /\ \A t \in TcSet : BuildTask(p, t) \in graph.nodes \ graph.running

\* C12: next_task, the walk started at Root, never returns NotBlocked: no
\* worker ever enters the unreachable!() arm of the loop.
C12_NotBlockedNeverEscapes == \A w \in Workers : pc[w] # "unreachable"

\* A walk from Root has deleted a CrateCompleted node (NotBlocked inside the
\* recursion) and returned Finished to the worker.
C12_Witness ==
  \E w \in Workers, p \in CrateSet \ skip :
    /\ pc[w] = "done"
    /\ CrateCompleted(p) \notin graph.nodes

\* The Running experiments whose assigned_to is the agent.
RunningFor(agent) ==
  {n \in ExNameSet :
     experiments[n].status = "running" /\ experiments[n].assigned_to = agent}

NextStep(agent) == ret'.call = "next" /\ ret'.agent = agent /\ now' = now

\* The Queued experiments.
Queued == {n \in ExNameSet : experiments[n].status = "queued"}

\* Experiment q is the first of the Queued ones by (priority DESC,
\* created_at ASC).
FirstQueued(q) ==
  /\ q \in Queued
  /\ \A m \in Queued \ {q} :
       \/ experiments[q].priority > experiments[m].priority
       \/ /\ experiments[q].priority = experiments[m].priority
          /\ experiments[q].created_at < experiments[m].created_at

\* C14: the assignment protocol of next(agent): an agent that owns a
\* Running experiment gets (false, that experiment) and nothing changes;
\* otherwise the first Queued experiment by (priority DESC, created_at ASC)
\* becomes Running with assigned_to = agent and (true, it) is returned;
\* without a Queued experiment the result is none and nothing changes.
C14_AssignmentProtocol ==
  [][\A agent \in Agents :
       NextStep(agent) =>
         IF RunningFor(agent) # {}
         THEN /\ ret'.value = "Some" /\ ~ret'.is_new
              /\ ret'.name \in RunningFor(agent)
              /\ experiments' = experiments
         ELSE IF Queued # {}
         THEN \E q \in Queued :
                /\ FirstQueued(q)
                /\ ret'.value = "Some" /\ ret'.is_new /\ ret'.name = q
                /\ experiments'[q].status = "running"
                /\ experiments'[q].assigned_to = agent
                /\ \A m \in ExNameSet \ {q} : experiments'[m] = experiments[m]
         ELSE /\ ret'.value = "None"
              /\ experiments' = experiments]_vars

\* The end of the example: 'test' (priority 0) was created before
\* 'important' (priority 10); agent-1 runs important, agent-2 runs test, and
\* next(agent-3) has returned none.
C14_Witness ==
  /\ experiments["test"].priority = 0 /\ experiments["important"].priority = 10
  /\ experiments["test"].created_at < experiments["important"].created_at
  /\ RunningFor("agent-1") = {"important"}
  /\ RunningFor("agent-2") = {"test"}
  /\ ret = NextNone("agent-3")

\* C15: for every experiment, assigned_to is non-null if and only if its
\* status is Running, in every state the store's mutators reach.
C15_AssignedIffRunning ==
  \A n \in ExNameSet :
    (experiments[n].assigned_to # NoAgent) <=> (experiments[n].status = "running")

\* C16: the store enforces the status state machine: a set_status call
\* changes the status only along Queued->Running, Running->NeedsReport,
\* NeedsReport->GeneratingReport, GeneratingReport->Completed,
\* GeneratingReport->ReportFailed, ReportFailed->GeneratingReport and
\* Running->Queued; any other requested transition leaves the status
\* unchanged.
C16_StateMachineEnforced ==
  [][\A n \in ExNameSet :
       experiments'[n].status # experiments[n].status =>
         <<experiments[n].status, experiments'[n].status>> \in Transitions]_vars

\* C17: timestamps: started_at becomes non-null only in a step that makes
\* the experiment Running, and never changes once it is set, whatever the
\* status changes that follow (Running->Queued->Running included); and
\* whenever started_at and completed_at are both set, completed_at >=
\* started_at.
C17_Timestamps ==
  /\ [][\A n \in ExNameSet :
          /\ (experiments[n].started_at = NoTime /\ experiments'[n].started_at # NoTime)
               => (experiments[n].status # "running" /\ experiments'[n].status = "running")
          /\ experiments[n].started_at # NoTime
               => experiments'[n].started_at = experiments[n].started_at]_vars
  /\ [](\A n \in ExNameSet :
          (experiments[n].started_at # NoTime /\ experiments[n].completed_at # NoTime)
            => experiments[n].completed_at >= experiments[n].started_at)

\* An experiment was started, abandoned (Running->Queued) at a later time
\* and given out again by next: it runs with the started_at of its first
\* start and a later completed_at.
C17_Witness ==
  \E n \in ExNameSet :
    /\ ret.call = "next" /\ ret.is_new /\ ret.name = n
    /\ experiments[n].status = "running"
    /\ experiments[n].started_at # NoTime
    /\ experiments[n].completed_at > experiments[n].started_at
    /\ now > experiments[n].started_at

\* C18: every set_status call that moves an experiment away from Running,
\* back to Queued included, sets completed_at to the current time when it
\* was null and leaves it unchanged when it was set.
C18_CompletedStamped ==
  [][\A n \in ExNameSet :
       (experiments[n].status = "running" /\ experiments'[n].status # "running") =>
         experiments'[n].completed_at =
           (IF experiments[n].completed_at = NoTime THEN now
            ELSE experiments[n].completed_at)]_vars

\* set_status has just moved a Running experiment back to Queued and
\* stamped completed_at with the current time, later than its start.
C18_Witness ==
  /\ ret.call = "set_status"
  /\ data.status = "queued"
  /\ experiments[data.name].status = "queued"
  /\ experiments[data.name].assigned_to # NoAgent
  /\ experiments[data.name].completed_at = now
  /\ experiments[data.name].started_at # NoTime
  /\ experiments[data.name].started_at < now

\* C19: a set_start_toolchain(tc) with tc equal to the end toolchain, or a
\* set_end_toolchain(tc) with tc equal to the start toolchain, returns a
\* validation error and changes no state: neither the toolchain_start /
\* toolchain_end columns nor the toolchains of the in-memory experiment,
\* which stay those read from the store.
C19_RejectedToolchainNoChange ==
  [][ret'.value = "Err" =>
       /\ experiments' = experiments
       /\ data'.toolchains = get(experiments, data'.name).toolchains]_vars

\* The graph run_ex starts from has not been walked yet.
NotWalked == executed = {} /\ ~SomeDone

\* The nodes of one crate: Prepare, one task per toolchain, CrateCompleted.
NodesOf(p) ==
  {PrepareTask(p), CrateCompleted(p)} \cup {BuildTask(p, t) : t \in TcSet}

\* C20: with k crates for which config.should_skip is false and 2
\* toolchains, build_graph produces exactly k*3 + k + 1 nodes: Prepare, two
\* per-toolchain tasks and CrateCompleted per crate, and Root; a skipped
\* crate contributes no node.
C20_GraphSize ==
  NotWalked =>
    LET k == Cardinality(CrateSet \ skip)
    IN  /\ Cardinality(graph.nodes) = k * 3 + k + 1
        /\ graph.nodes = {Root} \cup UNION {NodesOf(p) : p \in CrateSet \ skip}
        /\ \A p \in skip : NodesOf(p) \cap graph.nodes = {}

\* The graph built for two crates of which one is skipped: 5 nodes.
C20_Witness ==
  /\ NotWalked
  /\ Cardinality(skip) = 1
  /\ Cardinality(graph.nodes) = 5

\* The nodes reachable from Root.
FromRoot(g) == DependenciesOf(g, {Root})

\* C21: in the graph built by build_graph and in every graph reached from
\* it by next_task, mark_as_completed and mark_as_failed, every Task node
\* reachable from Root is reachable only through the CrateCompleted node of
\* its own crate: without that node it is not reachable.
C21_ThroughCrateCompleted ==
  \A n \in FromRoot(graph) :
    IsTask(n) =>
      /\ CrateCompleted(n.krate) \in graph.nodes
      /\ n \notin FromRoot(mark_as_completed(graph, CrateCompleted(n.krate)))

\* After a failure cascade in one crate and a completed Prepare in another,
\* a per-toolchain task is still reachable from Root.
C21_Witness ==
  \E p, q \in CrateSet, t \in TcSet :
    /\ p \in failedRuns
    /\ PrepareTask(q) \in executed
    /\ PrepareTask(q) \notin graph.nodes
    /\ BuildTask(q, t) \in FromRoot(graph)

\* The tasks that can be handed out: reachable from Root, not running,
\* needing execution, with no dependency left.
Ready ==
  {n \in FromRoot(graph) :
     /\ IsTask(n)
     /\ n \notin graph.running
     /\ needs_exec(n, db)
     /\ neighbors(graph, n) = <<>>}

\* Worker w's next_task call takes place in this step.
NextTaskStep(w) == pc[w] = "loop" /\ pc'[w] # "loop"

\* C22: work conservation: when some task is ready, next_task returns a
\* Task, also when branches scanned before it are Blocked; Blocked is
\* returned only when no task is ready.
C22_WorkConservation ==
  [][\A w \in Workers :
       NextTaskStep(w) =>
         /\ Ready # {} => (pc'[w] = "run" /\ cur'[w] \in Ready)
         /\ pc'[w] = "register" => Ready = {}]_vars

\* The Prepare task of the crate scanned first runs on one worker, and
\* another worker has been given the Prepare task of the crate scanned
\* after it.
C22_Witness ==
  \E w1, w2 \in Workers :
    /\ pc[w1] = "run" /\ pc[w2] = "run"
    /\ cur[w1] = PrepareTask(Crates[Len(Crates)])
    /\ cur[w2] = PrepareTask(Crates[1])

\* The two assertions after the workers have joined.
final_assertions(g, store) ==
  /\ next_task(g, store).result = "Finished"
  /\ neighbors(g, Root) = <<>>

\* C23: the final assertions never fail: once every worker has exited
\* through Finished, next_task returns Finished and Root has no
\* out-neighbor; and no worker observes Finished while a Task node is
\* running or still needs execution.
C23_FinalAssertions ==
  /\ AllDone => final_assertions(graph, db)
  /\ SomeDone =>
       /\ graph.running = {}
       /\ \A n \in graph.nodes : IsTask(n) => ~needs_exec(n, db)
       /\ \A w \in Workers : ~Holding(w)

\* Every worker has exited through Finished after a run in which tasks
\* were executed on both crates and one of them failed.
C23_Witness ==
  /\ AllDone
  /\ skip = {}
  /\ failedRuns # {}
  /\ \E p \in CrateSet \ failedRuns : \A t \in TcSet : BuildTask(p, t) \in executed

\* C25: results are append-only under failure cascades: mark_as_failed
\* never records an outcome for a (crate, toolchain) that already has a
\* recorded result; on resume with one result of a crate recorded and the
\* crate's Prepare failing, that result stays as it was.
C25_AppendOnlyCascade ==
  [][\A w \in Workers :
       MarkAsFailedStep(w) =>
         \A k \in Keys : db[k] # NoResult => db'[k] = db[k]]_vars

\* C27: set_status changes completed_at only when the old status is
\* Running and the new status is not: an experiment that is Running and
\* stays Running, a set_status(Running) call on it included, keeps its
\* completed_at.
C27_CompletedOnlyOnLeaving ==
  [][\A n \in ExNameSet :
       experiments'[n].completed_at # experiments[n].completed_at =>
         (experiments[n].status = "running" /\ experiments'[n].status # "running")]_vars

\* The call of next by the agent has returned (true, experiment n).
ReturnedNew(agent, n) ==
  /\ calls[agent].pc = "returned"
  /\ calls[agent].result = NextSome(agent, TRUE, n)

\* C24: concurrent assignment: when next is called concurrently by
\* different agents, the statements of the calls interleaved, no Queued
\* experiment is returned as (true, experiment) to two agents, and every
\* experiment returned with is_new = true is persisted as Running with
\* assigned_to the agent it was returned to.
C24_ConcurrentAssignment ==
  \A agent \in Agents, n \in ExNameSet :
    ReturnedNew(agent, n) =>
      /\ \A other \in Agents \ {agent} : ~ReturnedNew(other, n)
      /\ experiments[n].status = "running"
      /\ experiments[n].assigned_to = agent

\* Every worker thread has exited, through Finished or with an Err.
AllExited == \A w \in Workers : pc[w] \in {"done", "failed"}

\* C26: when mark_as_failed returns an error in one worker, the error is
\* propagated out of run_ex: the remaining workers still terminate and
\* run_ex returns Err.  What termination needs: after a worker has exited
\* with the error, either every worker has exited, or a worker still owns
\* a task (and will change the graph), or next_task does not answer
\* Blocked; otherwise every later next_task is Blocked and the workers
\* left never exit.
C26_ErrorPropagates ==
  (\E w \in Workers : pc[w] = "failed") =>
    \/ AllExited
    \/ \E w \in Workers : Holding(w)
    \/ next_task(graph, db).result # "Blocked"

====
